---- MODULE Spec2Model ----
(***************************************************************************)
(* A model of the scrape-extract-persist pipeline of src/scraper.py        *)
(* (class WebScraper) and of the read-only consumer src/visualizer.py      *)
(* (class DataVisualizer).                                                 *)
(*                                                                         *)
(* Strings are TLA+ strings, Python lists are sequences, Python dicts are  *)
(* functions from keys to values, a parsed URL is a record                 *)
(* [scheme, netloc, path].  A call that raises is the value Raised.        *)
(* Time is counted in ticks, TicksPerSecond ticks to the second.           *)
(***************************************************************************)
EXTENDS Integers, Sequences, FiniteSets, TLC

\* ---------------------------------------------------------------- bounds
MaxUrls == 2          \* longest URL list handed to scrape_multiple
MaxRows == 3          \* cap on the rows of scraped_data
MaxStats == 2         \* cap on the rows of scraping_stats
MaxClock == 3         \* last tick of the wall clock
MaxDelay == 1         \* longest delay argument, in ticks
TicksPerSecond == 2   \* resolution of the modelled clock

\* ------------------------------------------------------- small utilities
Last(s) == s[Len(s)]

RECURSIVE SumSeq(_)
SumSeq(s) == IF s = <<>> THEN 0 ELSE Head(s) + SumSeq(Tail(s))

\* a call that raised / a call that returned v
Raised == [raised |-> TRUE]
Returned(v) == [raised |-> FALSE, value |-> v]

\* ----------------------------------------------------------- the network
MkUrl(n, p) == [scheme |-> "https", netloc |-> n, path |-> p]

UrlA == MkUrl("ex.com", "/a")
UrlB == MkUrl("other.com", "/b")

\* the URLs a caller may put in a list
URLS == {UrlA, UrlB}

Meta(n, p, c) == [name |-> n, property |-> p, content |-> c]

Href(n, p) == [valid |-> TRUE, netloc |-> n, path |-> p]

\* an href that urljoin/urlparse reject with ValueError (e.g. "http://[")
BadHref == [valid |-> FALSE, netloc |-> "", path |-> ""]

\* a page with a title, a script node, every meta tag (one of them twice,
\* one with an upper-case name) and links to its own and to another host
PageFull ==
  [title |-> [present |-> TRUE, string |-> "News"],
   nodes |-> << [tag |-> "p", lines |-> << <<"news", "", "today">>, <<"">> >>],
                [tag |-> "script", lines |-> << <<"js">> >>],
                [tag |-> "style", lines |-> << <<"css">> >>] >>,
   metas |-> << Meta("Description", "", "first"),
                Meta("description", "", "d"),
                Meta("keywords", "", "k"),
                Meta("author", "", "me"),
                Meta("", "og:title", "t"),
                Meta("", "OG:Description", "o"),
                Meta("viewport", "", "w") >>,
   hrefs |-> << Href("ex.com", "/a"), Href("other.com", "/b"),
                Href("", "/a"), Href("ex.com", "/a") >>]

\* a page without title and meta tags
PagePlain ==
  [title |-> [present |-> FALSE, string |-> ""],
   nodes |-> << [tag |-> "p", lines |-> << <<"hello">> >>] >>,
   metas |-> << >>,
   hrefs |-> << >>]

\* an empty body
PageEmpty ==
  [title |-> [present |-> FALSE, string |-> ""],
   nodes |-> << >>, metas |-> << >>, hrefs |-> << >>]

\* a page one of whose hrefs makes urljoin raise
PageBadHref ==
  [title |-> [present |-> TRUE, string |-> "Bad"],
   nodes |-> << [tag |-> "p", lines |-> << <<"oops">> >>] >>,
   metas |-> << Meta("author", "", "me") >>,
   hrefs |-> << Href("", "/a"), BadHref >>]

HttpResponse(c, b) == [kind |-> "response", code |-> c, body |-> b]

HttpError(e) == [kind |-> e, code |-> 0, body |-> PageEmpty]

\* what session.get can produce for each URL: a transport error, or a
\* final response
Outcomes ==
  [u \in URLS |->
     IF u = UrlA
     THEN { HttpError("Timeout"), HttpResponse(200, PageFull),
            HttpResponse(200, PageBadHref), HttpResponse(304, PageEmpty),
            HttpResponse(404, PagePlain) }
     ELSE { HttpError("ConnectionError"), HttpResponse(204, PageEmpty),
            HttpResponse(101, PageEmpty), HttpResponse(503, PageEmpty) }]

\* ------------------------------------------------------------ the fetcher
\* a status check that lets client errors through
RaiseForStatus_server(code) == 500 <= code /\ code < 600

\* requests.Response.raise_for_status: HTTPError for 4xx and 5xx only
RaiseForStatus(code) == (400 <= code /\ code < 500) \/ (500 <= code /\ code < 600)

fetch_page(outcome) ==
  IF outcome.kind # "response" THEN Raised
  ELSE IF RaiseForStatus(outcome.code) THEN Raised
  ELSE Returned(outcome)

\* ---------------------------------------------------------- the extractor
RECURSIVE Flatten(_)
Flatten(ss) == IF ss = <<>> THEN <<>> ELSE Head(ss) \o Flatten(Tail(ss))

RECURSIVE NodeLines(_)
NodeLines(nodes) ==
  IF nodes = <<>> THEN <<>>
  ELSE LET n == Head(nodes) IN
       (IF n.tag \in {"script", "style"} THEN <<>> ELSE n.lines)
         \o NodeLines(Tail(nodes))

RECURSIVE JoinChunks(_)
JoinChunks(chunks) ==
  IF chunks = <<>> THEN ""
  ELSE IF Len(chunks) = 1 THEN Head(chunks)
  ELSE Head(chunks) \o " " \o JoinChunks(Tail(chunks))

extract_text(soup) ==
  JoinChunks(SelectSeq(Flatten(NodeLines(soup.nodes)), LAMBDA c : c # ""))

urljoin(base, href) ==
  IF ~href.valid THEN Raised
  ELSE IF href.netloc # "" THEN Returned(MkUrl(href.netloc, href.path))
  ELSE Returned(MkUrl(base.netloc, href.path))

extract_links(soup, base_url) ==
  LET joined == [k \in DOMAIN soup.hrefs |-> urljoin(base_url, soup.hrefs[k])]
  IN IF \E k \in DOMAIN joined : joined[k].raised THEN Raised
     ELSE Returned({ joined[k].value : k \in
                       { j \in DOMAIN joined :
                           joined[j].value.netloc = base_url.netloc } })

MetadataKeys ==
  <<"description", "keywords", "author", "og_title", "og_description">>

\* str.lower on the attribute values that occur
Lower(s) ==
  CASE s = "Description" -> "description"
    [] s = "OG:Description" -> "og:description"
    [] OTHER -> s

MetaTarget(meta) ==
  LET name == Lower(meta.name)
      property == Lower(meta.property)
  IN CASE name = "description" -> "description"
       [] name = "keywords" -> "keywords"
       [] name = "author" -> "author"
       [] property = "og:title" -> "og_title"
       [] property = "og:description" -> "og_description"
       [] OTHER -> ""

RECURSIVE ApplyMetas(_, _)
ApplyMetas(metadata, metas) ==
  IF metas = <<>> THEN metadata
  ELSE LET m == Head(metas)
           key == MetaTarget(m)
       IN ApplyMetas(IF key = "" THEN metadata
                     ELSE [metadata EXCEPT ![key] = m.content],
                     Tail(metas))

extract_metadata(soup) ==
  ApplyMetas([k \in { MetadataKeys[j] : j \in DOMAIN MetadataKeys } |-> ""],
             soup.metas)

\* ------------------------------------------------------ the page pipeline
EmptyDict == [k \in {} |-> ""]

\* the failure record without the URL
FailedRecord_blank(url) ==
  [url |-> MkUrl("", ""), title |-> "", content |-> "", links |-> {},
   metadata |-> EmptyDict, status |-> "failed"]

FailedRecord(url) ==
  [url |-> url, title |-> "", content |-> "", links |-> {},
   metadata |-> EmptyDict, status |-> "failed"]

scrape_page(url, outcome) ==
  LET response == fetch_page(outcome) IN
  IF response.raised THEN FailedRecord(url)
  ELSE LET soup == response.value.body
           links == extract_links(soup, url)
       IN IF links.raised THEN FailedRecord(url)
          ELSE [url |-> url,
                title |-> IF soup.title.present THEN soup.title.string ELSE "",
                content |-> extract_text(soup),
                links |-> links.value,
                metadata |-> extract_metadata(soup),
                status |-> "success"]

\* ---------------------------------------------------------------- the store
\* a serializer that leaves out the members with an empty value
json_dumps_nonempty(d) ==
  LET keys == SelectSeq(MetadataKeys, LAMBDA k : k \in DOMAIN d /\ d[k] # "")
  IN [j \in DOMAIN keys |-> <<keys[j], d[keys[j]]>>]

\* json.dumps of a dict: its members, in insertion order
json_dumps(d) ==
  LET keys == SelectSeq(MetadataKeys, LAMBDA k : k \in DOMAIN d)
  IN [j \in DOMAIN keys |-> <<keys[j], d[keys[j]]>>]

\* the row save_to_db inserts for a record (links are not stored)
Row(data) ==
  [url |-> data.url, title |-> data.title, content |-> data.content,
   metadata |-> json_dumps(data.metadata), status |-> data.status]


\* --------------------------------------------------------------- the clock
Digits == <<"0", "1", "2", "3", "4", "5", "6", "7", "8", "9">>

TwoDigits(n) == Digits[((n \div 10) % 10) + 1] \o Digits[(n % 10) + 1]

\* the format without its seconds, '%Y%m%d_%H%M'
strftime_minutes(t) ==
  LET s == t \div TicksPerSecond IN
  "20240101_" \o TwoDigits(s \div 3600) \o TwoDigits((s \div 60) % 60)

\* datetime.now().strftime('%Y%m%d_%H%M%S') at tick t of the first of
\* January 2024: the reading is cut to the whole second
strftime(t) ==
  LET s == t \div TicksPerSecond IN
  "20240101_" \o TwoDigits(s \div 3600) \o TwoDigits((s \div 60) % 60)
              \o TwoDigits(s % 60)

\* ------------------------------------------------------------------- state
VARIABLES
  scraped_data,    \* table scraped_data, in id order
  scraping_stats,  \* table scraping_stats, in id order
  clock,           \* the wall clock, in ticks
  pc,              \* position of the scrape_multiple call
  halt,            \* "none", or how the call stopped: "killed", "store_error"
  urls, delay,     \* arguments of the call
  results, session_id, start_time, successful, failed, i,  \* its locals
  response,        \* what session.get produced for the page just scraped
  returned,        \* the value the last call returned
  trace,           \* effects of the call so far: get, insert, sleep, stats
  base,            \* sizes of the two tables when the call began
  starts,          \* start tick of the call behind each scraping_stats row
  analysis,        \* what analyze_content returned, if it was the last read
  viz              \* the visualizer operation that was the last read, and
                   \* how it ended

vars == <<scraped_data, scraping_stats, clock, pc, halt, urls, delay, results,
          session_id, start_time, successful, failed, i, response, returned,
          trace, base, starts, analysis, viz>>

locals == <<urls, delay, results, session_id, start_time, successful, failed, i>>

NoOutcome == [kind |-> "none", code |-> 0, body |-> PageEmpty]
NoReturn == [done |-> FALSE, value |-> <<>>]
NoAnalysis == [done |-> FALSE]
NoViz == [op |-> "none", result |-> "none"]

\* all sequences over S of length at most n
SeqUpTo(S, n) == UNION { [1..k -> S] : k \in 0..n }

\* no call is running: before the first call, after a return, after a stop
Quiescent == pc = "idle" \/ halt # "none"

Running == pc # "idle" /\ halt = "none"

\* sleeps the running call still has to make
PendingSleeps ==
  IF Running /\ pc \in {"scrape", "save", "tally", "sleep"}
  THEN Len(urls) - i ELSE 0

\* WebScraper.__init__ / init_database: both tables exist and are empty
Init ==
  /\ scraped_data = <<>>
  /\ scraping_stats = <<>>
  /\ clock = 0
  /\ pc = "idle"
  /\ halt = "none"
  /\ urls = <<>>
  /\ delay = 0
  /\ results = <<>>
  /\ session_id = ""
  /\ start_time = 0
  /\ successful = 0
  /\ failed = 0
  /\ i = 0
  /\ response = NoOutcome
  /\ returned = NoReturn
  /\ trace = <<>>
  /\ base = [rows |-> 0, stats |-> 0]
  /\ starts = <<>>
  /\ analysis = NoAnalysis
  /\ viz = NoViz

\* time passes
Tick ==
  /\ clock + 1 + delay * PendingSleeps <= MaxClock
  /\ clock' = clock + 1
  /\ UNCHANGED <<scraped_data, scraping_stats, pc, halt, locals, response,
                 returned, trace, base, starts, analysis, viz>>

\* the loop leaving one URL out
LoopDone_early(k, n) == ~(k < n - 1)

\* line 185: the loop is over when k of the n URLs have been taken
LoopDone(k, n) == ~(k < n)

\* a sleep after every page, the last one too
SleepDue_always(k, n) == k <= n

\* line 197: a sleep follows page k of n
SleepDue(k, n) == k < n

\* scrape_multiple, lines 179-183: the call begins, with a URL list and a
\* delay from the given sets
Start(lists, delays) ==
  /\ Quiescent
  /\ \E us \in lists, d \in delays :
       /\ Len(scraped_data) + Len(us) <= MaxRows
       /\ Len(scraping_stats) < MaxStats
       /\ clock + d * (IF Len(us) > 0 THEN Len(us) - 1 ELSE 0) <= MaxClock
       /\ urls' = us
       /\ delay' = d
       /\ pc' = IF LoopDone(0, Len(us)) THEN "stats" ELSE "scrape"
       /\ i' = IF LoopDone(0, Len(us)) THEN 0 ELSE 1
  /\ halt' = "none"
  /\ results' = <<>>
  /\ session_id' = strftime(clock)
  /\ start_time' = clock
  /\ successful' = 0
  /\ failed' = 0
  /\ response' = NoOutcome
  /\ returned' = NoReturn
  /\ trace' = <<>>
  /\ base' = [rows |-> Len(scraped_data), stats |-> Len(scraping_stats)]
  /\ analysis' = NoAnalysis
  /\ viz' = NoViz
  /\ UNCHANGED <<scraped_data, scraping_stats, clock, starts>>

\* lines 188-189: data = self.scrape_page(url); results.append(data)
ScrapePage(outcomes) ==
  /\ Running /\ pc = "scrape"
  /\ \E o \in outcomes[urls[i]] :
       /\ response' = o
       /\ results' = Append(results, scrape_page(urls[i], o))
  /\ trace' = Append(trace, <<"get", i>>)
  /\ pc' = "save"
  /\ UNCHANGED <<scraped_data, scraping_stats, clock, halt, urls, delay,
                 session_id, start_time, successful, failed, i, returned,
                 base, starts, analysis, viz>>

\* the first record of the call instead of the current one
Data_first == Head(results)

\* the record the loop hands to save_to_db
Data == Last(results)

\* line 190, save_to_db: one row is inserted and committed
SaveToDb ==
  /\ Running /\ pc = "save"
  /\ scraped_data' = Append(scraped_data, Row(Data))
  /\ trace' = Append(trace, <<"insert", i>>)
  /\ pc' = "tally"
  /\ UNCHANGED <<scraping_stats, clock, halt, locals, response, returned,
                 base, starts, analysis, viz>>

\* lines 192-197: the tally, and whether a sleep follows
Tally ==
  /\ Running /\ pc = "tally"
  /\ IF Data.status = "success"
     THEN successful' = successful + 1 /\ failed' = failed
     ELSE failed' = failed + 1 /\ successful' = successful
  /\ IF SleepDue(i, Len(urls))
     THEN pc' = "sleep" /\ i' = i
     ELSE IF LoopDone(i, Len(urls))
          THEN pc' = "stats" /\ i' = i
          ELSE pc' = "scrape" /\ i' = i + 1
  /\ response' = NoOutcome
  /\ UNCHANGED <<scraped_data, scraping_stats, clock, halt, urls, delay,
                 results, session_id, start_time, returned, trace, base,
                 starts, analysis, viz>>

\* line 198: time.sleep(delay), then the next iteration
Sleep ==
  /\ Running /\ pc = "sleep"
  /\ clock' = clock + delay
  /\ trace' = Append(trace, <<"sleep", i>>)
  /\ IF LoopDone(i, Len(urls))
     THEN pc' = "stats" /\ i' = i
     ELSE pc' = "scrape" /\ i' = i + 1
  /\ UNCHANGED <<scraped_data, scraping_stats, halt, urls, delay, results,
                 session_id, start_time, successful, failed, response,
                 returned, base, starts, analysis, viz>>

\* the two tallies in each other's column
StatsRow_swapped ==
  [session_id |-> session_id, total_pages |-> Len(urls),
   successful |-> failed, failed |-> successful,
   duration |-> clock - start_time]

\* the row of scraping_stats the call writes
StatsRow ==
  [session_id |-> session_id, total_pages |-> Len(urls),
   successful |-> successful, failed |-> failed,
   duration |-> clock - start_time]

\* lines 200-210: the statistics row is inserted and committed
WriteStats ==
  /\ Running /\ pc = "stats"
  /\ scraping_stats' = Append(scraping_stats, StatsRow)
  /\ starts' = Append(starts, start_time)
  /\ trace' = Append(trace, <<"stats", 0>>)
  /\ pc' = "return"
  /\ UNCHANGED <<scraped_data, clock, halt, locals, response, returned, base,
                 analysis, viz>>

\* line 213: return results; the frame of the call is gone
Return ==
  /\ Running /\ pc = "return"
  /\ returned' = [done |-> TRUE, value |-> results]
  /\ pc' = "idle"
  /\ results' = <<>>
  /\ session_id' = ""
  /\ start_time' = 0
  /\ successful' = 0
  /\ failed' = 0
  /\ i' = 0
  /\ response' = NoOutcome
  /\ trace' = <<>>
  /\ UNCHANGED <<scraped_data, scraping_stats, clock, halt, urls, delay, base,
                 starts, analysis, viz>>

\* sqlite3 raises in save_to_db or in the statistics insert: nothing is
\* written and the exception leaves scrape_multiple
StoreError ==
  /\ Running /\ pc \in {"save", "stats"}
  /\ halt' = "store_error"
  /\ UNCHANGED <<scraped_data, scraping_stats, clock, pc, locals, response,
                 returned, trace, base, starts, analysis, viz>>

\* the process is terminated in the middle of the call
Kill ==
  /\ Running
  /\ halt' = "killed"
  /\ UNCHANGED <<scraped_data, scraping_stats, clock, pc, locals, response,
                 returned, trace, base, starts, analysis, viz>>


\* ----------------------------------------------------------- the analytics
RECURSIVE GCD(_, _)
GCD(a, b) == IF b = 0 THEN a ELSE GCD(b, a % b)

\* the number n/d, in lowest terms (d > 0)
Frac(n, d) == LET g == GCD(n, d) IN [num |-> n \div g, den |-> d \div g]

Zero == [num |-> 0, den |-> 1]

\* round(n/d, 2): the nearest multiple of 1/100, a tie going to the even one
Round2(n, d) ==
  LET q == (100 * n) \div d
      r == (100 * n) % d
      h == IF 2 * r < d THEN q
           ELSE IF 2 * r > d THEN q + 1
           ELSE IF q % 2 = 0 THEN q ELSE q + 1
  IN Frac(h, 100)

\* SELECT COUNT(*) FROM scraped_data WHERE status = st
CountStatus(rows, st) == Len(SelectSeq(rows, LAMBDA r : r.status = st))

\* the average taken over every row, whatever its status
AvgLength_all(rows) ==
  LET total == SumSeq([k \in DOMAIN rows |-> Len(rows[k].content)])
  IN IF Len(rows) = 0 THEN [n |-> 0, d |-> 1] ELSE [n |-> total, d |-> Len(rows)]

\* SELECT AVG(LENGTH(content)) ... WHERE status='success', then "or 0"
AvgLength(rows) ==
  LET ok == SelectSeq(rows, LAMBDA r : r.status = "success")
      total == SumSeq([k \in DOMAIN ok |-> Len(ok[k].content)])
  IN IF Len(ok) = 0 THEN [n |-> 0, d |-> 1] ELSE [n |-> total, d |-> Len(ok)]

analyze_content(rows) ==
  LET total_successful == CountStatus(rows, "success")
      total_failed == CountStatus(rows, "failed")
      avg_content_length == AvgLength(rows)
  IN [done |-> TRUE,
      total_pages |-> total_successful + total_failed,
      successful |-> total_successful,
      failed |-> total_failed,
      success_rate |->
        IF total_successful + total_failed > 0
        THEN Frac(total_successful * 100, total_successful + total_failed)
        ELSE Zero,
      avg_content_length |-> Round2(avg_content_length.n, avg_content_length.d)]

\* a caller asks for the analytics of the store
AnalyzeContent ==
  /\ pc = "idle" /\ halt = "none"
  /\ analysis' = analyze_content(scraped_data)
  /\ viz' = NoViz
  /\ UNCHANGED <<scraped_data, scraping_stats, clock, pc, halt, locals,
                 response, returned, trace, base, starts>>

\* ---------------------------------------------------------- the visualizer
\* Each operation is modelled by whether it raises on the tables it loads.
\* A plotting call raises where the source divides by the row count or
\* where the library documents an error (WordCloud.generate on a text
\* without words: ValueError); the other plotting calls are taken to
\* accept an empty frame.
plot_success_rate(df) == "ok"

plot_content_length_distribution(df) == "ok"

\* returns early on an empty scraping_stats
plot_scraping_timeline(stats) == "ok"

generate_wordcloud(df) ==
  IF \A k \in DOMAIN df : df[k].content = "" THEN "raised" ELSE "ok"

plot_top_domains(df) == "ok"

\* .../len(df)*100 in the report: ZeroDivisionError on an empty table
generate_summary_report(df) == IF Len(df) = 0 THEN "raised" ELSE "ok"

generate_all_visualizations(df, stats) ==
  IF /\ plot_success_rate(df) = "ok"
     /\ plot_content_length_distribution(df) = "ok"
     /\ plot_scraping_timeline(stats) = "ok"
     /\ generate_wordcloud(df) = "ok"
     /\ plot_top_domains(df) = "ok"
     /\ generate_summary_report(df) = "ok"
  THEN "ok" ELSE "raised"

VizOps ==
  {"plot_success_rate", "plot_content_length_distribution",
   "plot_scraping_timeline", "generate_wordcloud", "plot_top_domains",
   "generate_summary_report", "generate_all_visualizations"}

VizResult(op, df, stats) ==
  CASE op = "plot_success_rate" -> plot_success_rate(df)
    [] op = "plot_content_length_distribution" ->
         plot_content_length_distribution(df)
    [] op = "plot_scraping_timeline" -> plot_scraping_timeline(stats)
    [] op = "generate_wordcloud" -> generate_wordcloud(df)
    [] op = "plot_top_domains" -> plot_top_domains(df)
    [] op = "generate_summary_report" -> generate_summary_report(df)
    [] OTHER -> generate_all_visualizations(df, stats)

\* a DataVisualizer operation runs on the tables; it only reads them
Visualize ==
  /\ pc = "idle" /\ halt = "none"
  /\ \E op \in VizOps :
       viz' = [op |-> op, result |-> VizResult(op, scraped_data, scraping_stats)]
  /\ analysis' = NoAnalysis
  /\ UNCHANGED <<scraped_data, scraping_stats, clock, pc, halt, locals,
                 response, returned, trace, base, starts>>

\* ------------------------------------------------------- the specification
\* Calls with delay 0 on a clock that stands still, every outcome of every
\* page, stops at any point, and the readers between the calls.  The
\* running clock is in SpecClock.
Next ==
  \/ Start(SeqUpTo(URLS, MaxUrls), {0})
  \/ ScrapePage(Outcomes)
  \/ SaveToDb
  \/ Tally
  \/ Sleep
  \/ WriteStats
  \/ Return
  \/ StoreError
  \/ Kill
  \/ AnalyzeContent
  \/ Visualize

Spec == Init /\ [][Next]_vars

\* the same calls with the wall clock running during and between them,
\* over fewer pages
ClockOutcomes ==
  [u \in URLS |->
     IF u = UrlA
     THEN { HttpError("Timeout") }
     ELSE { HttpResponse(204, PageEmpty) }]

NextClock ==
  \/ Tick
  \/ Start(SeqUpTo(URLS, MaxUrls), 0..MaxDelay)
  \/ ScrapePage(ClockOutcomes)
  \/ SaveToDb
  \/ Tally
  \/ Sleep
  \/ WriteStats
  \/ Return

SpecClock == Init /\ [][NextClock]_vars


\* ================================================================ properties
\* the rows the current (or last) call has put into each table
RunRows == SubSeq(scraped_data, base.rows + 1, Len(scraped_data))

RunStats == SubSeq(scraping_stats, base.stats + 1, Len(scraping_stats))

\* C1: a scrape_multiple call that has returned gave back one record per
\* input URL, the k-th with the k-th URL, inserted exactly these records
\* into scraped_data in that order, and inserted exactly one scraping_stats
\* row, whose total_pages is the length of the list.
C1_OneRecordPerUrl ==
  returned.done =>
    /\ Len(returned.value) = Len(urls)
    /\ \A k \in 1..Len(urls) : returned.value[k].url = urls[k]
    /\ Len(RunRows) = Len(urls)
    /\ \A k \in 1..Len(urls) :
         /\ RunRows[k].url = urls[k]
         /\ RunRows[k].status = returned.value[k].status
         /\ RunRows[k].content = returned.value[k].content
         /\ RunRows[k].title = returned.value[k].title
    /\ Len(RunStats) = 1
    /\ RunStats[1].total_pages = Len(urls)

C1_Witness ==
  /\ returned.done
  /\ Len(urls) = 2
  /\ returned.value[1].status = "failed"
  /\ returned.value[2].status = "success"
  /\ base.rows > 0

\* the three counts of a record that carries them
Counts(r) == <<r.total_pages, r.successful, r.failed>>

\* C2 as stated: in the scraping_stats row a call has just written,
\* successful + failed = total_pages, and the three counts are those
\* analyze_content() returns over the stored records.
C2_Original ==
  (pc = "return") =>
    /\ Last(scraping_stats).successful + Last(scraping_stats).failed
         = Last(scraping_stats).total_pages
    /\ Counts(Last(scraping_stats)) = Counts(analyze_content(scraped_data))

\* C2 amended: in every scraping_stats row successful + failed =
\* total_pages, and the counts of the row a call has just written are those
\* analyze_content() gives over the records this call stored; they are the
\* counts over the whole table exactly when the table was empty before.
C2_Amended ==
  /\ \A k \in DOMAIN scraping_stats :
       scraping_stats[k].successful + scraping_stats[k].failed
         = scraping_stats[k].total_pages
  /\ (pc = "return") =>
       /\ Counts(Last(scraping_stats)) = Counts(analyze_content(RunRows))
       /\ (Counts(Last(scraping_stats)) = Counts(analyze_content(scraped_data)))
            <=> (base.rows = 0)

C2_Witness ==
  /\ pc = "return"
  /\ halt = "none"
  /\ base.rows > 0
  /\ Last(scraping_stats).successful = 1
  /\ Last(scraping_stats).failed = 1

TotalPages == SumSeq([k \in DOMAIN scraping_stats |-> scraping_stats[k].total_pages])

\* C3 as stated: calls that ran to their end added one scraped_data row per
\* URL each (nothing is deduplicated), and any two scraping_stats rows have
\* different session_id values, whenever the calls were made.
C3_Original ==
  /\ (pc = "idle") => Len(scraped_data) = TotalPages
  /\ \A a, b \in DOMAIN scraping_stats :
       a # b => scraping_stats[a].session_id # scraping_stats[b].session_id

\* C3 amended: calls that ran to their end added one scraped_data row per
\* URL each, and two scraping_stats rows have different session_id values
\* exactly when their calls began in different seconds of the clock.
C3_Amended ==
  /\ (pc = "idle") => Len(scraped_data) = TotalPages
  /\ Len(starts) = Len(scraping_stats)
  /\ \A a, b \in DOMAIN scraping_stats :
       (scraping_stats[a].session_id # scraping_stats[b].session_id)
         <=> (starts[a] \div TicksPerSecond # starts[b] \div TicksPerSecond)

C3_Witness ==
  /\ pc = "idle"
  /\ Len(scraping_stats) = 2
  /\ scraping_stats[1].total_pages = 1
  /\ scraping_stats[2].total_pages = 1
  /\ Len(scraped_data) = 2
  /\ scraped_data[1] = scraped_data[2]
  /\ starts[1] \div TicksPerSecond # starts[2] \div TicksPerSecond

\* C4: while a call runs, and after it stopped early, the rows it has
\* inserted are the records of the first URLs of its list, in order; page
\* k+1 is fetched only after the record of page k is inserted; a
\* scraping_stats row of the call exists only once all its records are
\* inserted, and none exists when the call was stopped before writing it.
C4_PrefixThenStats ==
  (pc # "idle") =>
    /\ Len(RunRows) <= Len(urls)
    /\ Len(RunRows) <= Len(results)
    /\ \A k \in 1..Len(RunRows) :
         RunRows[k] = Row(results[k]) /\ RunRows[k].url = urls[k]
    /\ \A p \in DOMAIN trace :
         (trace[p][1] = "get" /\ trace[p][2] > 1) =>
           \E q \in 1..(p - 1) : trace[q] = <<"insert", trace[p][2] - 1>>
    /\ (RunStats # <<>>) => (Len(RunRows) = Len(urls) /\ Len(RunStats) = 1)
    /\ (halt # "none" /\ pc # "return") => (RunStats = <<>>)

C4_Witness ==
  /\ halt = "store_error"
  /\ pc = "save"
  /\ Len(urls) = 2
  /\ Len(RunRows) = 1
  /\ base.rows > 0

\* failures of the fetch and of the extraction, read off the outcome
FetchFails(o) ==
  \/ o.kind \in {"Timeout", "ConnectionError"}
  \/ o.kind = "response" /\ o.code >= 400 /\ o.code <= 599

ExtractionFails(o) ==
  o.kind = "response" /\ \E k \in DOMAIN o.body.hrefs : ~o.body.hrefs[k].valid

Is2xx(c) == 200 <= c /\ c <= 299

IsError(c) == 400 <= c /\ c <= 599

FiveKeys(text) ==
  /\ Len(text) = 5
  /\ { text[j][1] : j \in DOMAIN text }
       = {"description", "keywords", "author", "og_title", "og_description"}
  /\ \A j \in DOMAIN text : text[j][2] \in STRING

\* C7 as stated: the metadata of every scraped_data row, success or
\* failed, is a JSON object with exactly the five fixed keys, each mapped
\* to a string.
C7_Original ==
  \A k \in DOMAIN scraped_data : FiveKeys(scraped_data[k].metadata)

\* C7 amended: the metadata of every scraped_data row with status success
\* is a JSON object with exactly the five fixed keys, each mapped to a
\* string; the metadata of every row with status failed is the empty JSON
\* object.
C7_Amended ==
  \A k \in DOMAIN scraped_data :
    /\ (scraped_data[k].status = "success") =>
         FiveKeys(scraped_data[k].metadata)
    /\ (scraped_data[k].status = "failed") =>
         (scraped_data[k].metadata = <<>>)

C7_Witness ==
  /\ Len(scraped_data) = 3
  /\ scraped_data[1].status = "success"
  /\ scraped_data[1].metadata[1] = <<"description", "d">>
  /\ scraped_data[2].status = "success"
  /\ scraped_data[2].metadata[1] = <<"description", "">>
  /\ scraped_data[3].status = "failed"

\* C8: a visualizer operation that ran on two empty tables ended without
\* raising.
C8_EmptyTablesTolerated ==
  (viz.op # "none" /\ scraped_data = <<>> /\ scraping_stats = <<>>) =>
    (viz.result = "ok")

\* the success rows of the table and the total length of their content
SuccessCount == Cardinality({ k \in DOMAIN scraped_data : scraped_data[k].status = "success" })

FailedCount == Cardinality({ k \in DOMAIN scraped_data : scraped_data[k].status = "failed" })

SuccessLength ==
  SumSeq([k \in DOMAIN scraped_data |->
            IF scraped_data[k].status = "success"
            THEN Len(scraped_data[k].content) ELSE 0])

RateAndCounts ==
  /\ analysis.successful = SuccessCount
  /\ analysis.failed = FailedCount
  /\ analysis.total_pages = SuccessCount + FailedCount
  /\ (SuccessCount + FailedCount > 0) =>
       (analysis.success_rate.num * (SuccessCount + FailedCount)
          = 100 * SuccessCount * analysis.success_rate.den)
  /\ (SuccessCount + FailedCount = 0) =>
       (analysis.success_rate = Zero /\ analysis.avg_content_length = Zero)
  /\ (SuccessCount = 0) => (analysis.avg_content_length = Zero)

\* C9 as stated: analyze_content() counts the stored records, gives
\* success_rate = successful / (successful + failed) * 100, or 0 on an
\* empty table, and avg_content_length is the mean content length of the
\* success records, 0 when there is none.
C9_Original ==
  analysis.done =>
    /\ RateAndCounts
    /\ (SuccessCount > 0) =>
         (analysis.avg_content_length.num * SuccessCount
            = SuccessLength * analysis.avg_content_length.den)

\* C9 amended: the same, with avg_content_length the mean content length of
\* the success records rounded to two decimal places: a multiple of 1/100
\* at most 1/200 away from the mean.
C9_Amended ==
  analysis.done =>
    /\ RateAndCounts
    /\ (SuccessCount > 0) =>
         LET a == analysis.avg_content_length
             diff == a.num * SuccessCount - SuccessLength * a.den
         IN /\ 100 % a.den = 0
            /\ 200 * diff <= a.den * SuccessCount
            /\ -200 * diff <= a.den * SuccessCount

C9_Witness ==
  /\ analysis.done
  /\ SuccessCount = 3
  /\ SuccessLength = 10
  /\ analysis.avg_content_length = [num |-> 333, den |-> 100]
  /\ analysis.success_rate = [num |-> 100, den |-> 1]

\* the effects of a call over n URLs, page k onwards
RECURSIVE Schedule(_, _)
Schedule(k, n) ==
  IF k > n THEN << <<"stats", 0>> >>
  ELSE << <<"get", k>>, <<"insert", k>> >>
         \o (IF k < n THEN << <<"sleep", k>> >> ELSE << >>)
         \o Schedule(k + 1, n)

SleepCount == Len(SelectSeq(trace, LAMBDA e : e[1] = "sleep"))

\* C10: the effects of a call follow the order fetch 1, insert 1, sleep,
\* fetch 2, insert 2, sleep, ..., fetch N, insert N, statistics: one sleep
\* between two consecutive pages, after the insert of the earlier one, none
\* after the last page, max(N-1, 0) sleeps in all.
C10_SleepBetweenPages ==
  (pc # "idle") =>
    /\ Len(trace) <= Len(Schedule(1, Len(urls)))
    /\ trace = SubSeq(Schedule(1, Len(urls)), 1, Len(trace))
    /\ (pc \in {"stats", "return"}) =>
         (SleepCount = IF Len(urls) > 0 THEN Len(urls) - 1 ELSE 0)
    /\ (pc = "return") => (trace = Schedule(1, Len(urls)))

C10_Witness ==
  /\ pc = "return"
  /\ Len(urls) = 2
  /\ SleepCount = 1

====
